---------------------------- MODULE Spec2Model ----------------------------
(***************************************************************************)
(* Model of backend/backend.py: the POST /generate handler                 *)
(* (generate_image) and the vendor relay (call_seedream_api).              *)
(*                                                                         *)
(* One request is followed through the handler: the upload is read and     *)
(* base64-encoded, the vendor SDK call visual_service.cv_process receives  *)
(* the payload and returns a response or raises, the response is           *)
(* interpreted, and the handler answers with one HTTP response.            *)
(*                                                                         *)
(* Strings and byte strings are sequences.  A message is a sequence of     *)
(* text tokens, a base64 string is a sequence of one-character tokens and  *)
(* a byte string is a sequence of numbers in 0..255.  So that an upload of *)
(* more than ten mebibytes can be written down, every sequence is kept in  *)
(* the form  unit^count \o tail  (the unit repeated count times, then the  *)
(* tail); count = 0 is the ordinary explicit sequence.                     *)
(***************************************************************************)
EXTENDS Integers, Sequences, FiniteSets, TLC

VARIABLES
    pc,             \* position of the request in generate_image
    file,           \* the UploadFile: content_type and the bytes it holds
    mode,           \* the form field mode
    image_base64,   \* generate_image's local (line 142)
    cv_calls,       \* the bodies passed to visual_service.cv_process
    resp,           \* what cv_process did: the response returned, or a raise
    result_base64,  \* first component of call_seedream_api's return value
    error_msg,      \* second component of call_seedream_api's return value
    exc,            \* the exception caught by the handler's except clause
    responses       \* the HTTP responses sent for the request

vars == <<pc, file, mode, image_base64, cv_calls, resp, result_base64,
          error_msg, exc, responses>>

---------------------------------------------------------------------------
(* Strings: unit^count \o tail *)

Lit(seq) == [unit |-> <<>>, count |-> 0, tail |-> seq]

Rep(u, n, t) == [unit |-> u, count |-> n, tail |-> t]

\* len(s)
StrLen(s) == Len(s.unit) * s.count + Len(s.tail)

\* a + b for explicit strings (messages are always explicit)
Concat(a, b) == Lit(a.tail \o b.tail)

\* sub in s, for explicit strings
Contains(s, sub) ==
    \E i \in 0..(Len(s.tail) - Len(sub.tail)) :
        \A j \in 1..Len(sub.tail) : s.tail[i + j] = sub.tail[j]

---------------------------------------------------------------------------
(* Python values: None, a str, an int *)

None == [k |-> "None", n |-> 0, s |-> Lit(<<>>)]

PyStr(s) == [k |-> "str", n |-> 0, s |-> s]

PyInt(i) == [k |-> "int", n |-> i, s |-> Lit(<<>>)]

\* bool(v): the test made by  if error_msg:  (line 147)
Truthy(v) ==
    CASE v.k = "None" -> FALSE
      [] v.k = "str"  -> StrLen(v.s) > 0
      [] v.k = "int"  -> v.n # 0

\* the text an f-string or str() gives for a value (line 74)
Format(v) ==
    CASE v.k = "None" -> Lit(<<"None">>)
      [] v.k = "str"  -> v.s
      [] v.k = "int"  -> Lit(<<ToString(v.n)>>)

---------------------------------------------------------------------------
(* base64.b64encode (line 142) *)

B64Alphabet ==
    << "A","B","C","D","E","F","G","H","I","J","K","L","M","N","O","P",
       "Q","R","S","T","U","V","W","X","Y","Z","a","b","c","d","e","f",
       "g","h","i","j","k","l","m","n","o","p","q","r","s","t","u","v",
       "w","x","y","z","0","1","2","3","4","5","6","7","8","9","+","/" >>

B64Char(i) == B64Alphabet[i + 1]

\* three bytes give four characters
Encode3(a, b, c) ==
    << B64Char(a \div 4),
       B64Char((a % 4) * 16 + (b \div 16)),
       B64Char((b % 16) * 4 + (c \div 64)),
       B64Char(c % 64) >>

RECURSIVE EncodeSeq(_)
EncodeSeq(bytes) ==
    IF Len(bytes) = 0 THEN <<>>
    ELSE IF Len(bytes) = 1 THEN
        << B64Char(bytes[1] \div 4), B64Char((bytes[1] % 4) * 16), "=", "=" >>
    ELSE IF Len(bytes) = 2 THEN
        << B64Char(bytes[1] \div 4),
           B64Char((bytes[1] % 4) * 16 + (bytes[2] \div 16)),
           B64Char((bytes[2] % 16) * 4), "=" >>
    ELSE Encode3(bytes[1], bytes[2], bytes[3])
             \o EncodeSeq(SubSeq(bytes, 4, Len(bytes)))

\* base64.b64encode(contents).decode('utf-8'); a repeated unit is three bytes
\* long, so that it encodes to a repeated unit of four characters
b64encode(contents) ==
    Rep(EncodeSeq(contents.unit), contents.count, EncodeSeq(contents.tail))

---------------------------------------------------------------------------
(* Bounds and the inputs a request and the vendor are drawn from *)

\* longest image_list / binary_data_base64 the vendor returns
MaxListLen == 2

TenMiB == 10 * 1024 * 1024

\* uploads: empty, of four bytes (the start of a JPEG), of exactly ten
\* mebibytes, and of one byte more
Uploads ==
    { Lit(<<>>), Lit(<<255, 216, 255, 224>>),
      Rep(<<0, 0, 0>>, TenMiB \div 3, <<0>>),
      Rep(<<0, 0, 0>>, TenMiB \div 3, <<0, 0>>) }

ContentTypes == { "image/jpeg", "image/gif", "text/plain" }

Modes == { "portrait", "meme", "" }

\* the raw images the vendor produces; it returns them base64-encoded
VendorBytes == { Lit(<<255, 216>>), Lit(<<137, 80, 78, 71>>) }

VendorImages == { b64encode(b) : b \in VendorBytes }

\* messages of the exceptions that file.read() or cv_process may raise;
\* str(e) is empty for an exception built without arguments
ExcMessages == { Lit(<<>>), Lit(<<"Connection refused">>) }

SeqUpTo(S, n) == UNION { [1..m -> S] : m \in 0..n }

\* a key of the vendor's data object: absent, null, or a list of strings
ListFields ==
    { [st |-> "absent", items |-> <<>>], [st |-> "null", items |-> <<>>] }
    \cup { [st |-> "list", items |-> l] : l \in SeqUpTo(VendorImages, MaxListLen) }

NoField == [st |-> "absent", items |-> <<>>]

\* the response's "data": absent, null, or an object with the two keys
DataValues ==
    { [st |-> "absent", image_list |-> NoField, binary_data_base64 |-> NoField],
      [st |-> "null", image_list |-> NoField, binary_data_base64 |-> NoField] }
    \cup { [st |-> "dict", image_list |-> il, binary_data_base64 |-> bd] :
             il \in ListFields, bd \in ListFields }

Codes == { PyInt(10000), PyInt(50411), None }

VendorMessages == { None, PyStr(Lit(<<"Access Denied">>)) }

\* what one call of cv_process can do: return a response, or raise
Outcomes ==
    { [raised |-> FALSE, msg |-> Lit(<<>>), code |-> c, message |-> m, data |-> d] :
        c \in Codes, m \in VendorMessages, d \in DataValues }
    \cup { [raised |-> TRUE, msg |-> x, code |-> None, message |-> None,
            data |-> [st |-> "absent", image_list |-> NoField,
                      binary_data_base64 |-> NoField]] : x \in ExcMessages }

NoOutcome ==
    [raised |-> FALSE, msg |-> Lit(<<>>), code |-> None, message |-> None,
     data |-> [st |-> "absent", image_list |-> NoField,
               binary_data_base64 |-> NoField]]

---------------------------------------------------------------------------
(* call_seedream_api *)

current_req_key == "jimeng_t2i_v40"

PortraitPrompt ==
    "Professional pet photography, Christmas theme, pet wearing a red Santa hat, cozy fireplace background, soft lighting, 8k resolution, highly detailed fur"

OtherPrompt ==
    "High-quality pet lifestyle photography, soft natural lighting, clean pastel cream background, pet looking at camera with innocent eyes, soft fluffy fur texture, heartwarming atmosphere, minimalist aesthetic, extremely detailed, 8k resolution, professional studio shot"

\* the strengths 0.6 and 0.45, written as decimal text
PortraitStrength == "0.6"

OtherStrength == "0.45"

\* the status code of a successful vendor response
SuccessCode == 10000

\* "API报错: " (line 74)
ApiErrorPrefix == Lit(<<"API error: ">>)

\* "接口未返回图片数据" (line 86)
NoImageMessage == Lit(<<"no image data returned">>)

\* what "x in None" and len(None) raise
NotIterableMessage == Lit(<<"argument of type 'NoneType' is not iterable">>)

NoLenMessage == Lit(<<"object of type 'NoneType' has no len()">>)

\* a plausible slip: the preset keyed on "meme", every other mode a portrait
BuildBody_keyedOnMeme(image_b64, m) ==
    [ req_key            |-> current_req_key,
      prompt             |-> IF m = "meme" THEN OtherPrompt ELSE PortraitPrompt,
      binary_data_base64 |-> << image_b64 >>,
      image_num          |-> 1,
      strength           |-> IF m = "meme" THEN OtherStrength ELSE PortraitStrength,
      seed               |-> -1,
      width              |-> 1024,
      height             |-> 1024 ]

\* the request body (lines 34-59)
BuildBody(image_b64, m) ==
    [ req_key            |-> current_req_key,
      prompt             |-> IF m = "portrait" THEN PortraitPrompt ELSE OtherPrompt,
      binary_data_base64 |-> << image_b64 >>,
      image_num          |-> 1,
      strength           |-> IF m = "portrait" THEN PortraitStrength ELSE OtherStrength,
      seed               |-> -1,
      width              |-> 1024,
      height             |-> 1024 ]

\* what the body of the try block yields: a returned pair, or a raise
Returns(result, error) ==
    [raised |-> FALSE, msg |-> Lit(<<>>), result |-> result, error |-> error]

Raises(msg) ==
    [raised |-> TRUE, msg |-> msg, result |-> None, error |-> None]

\* resp.get("data", {}): an absent key gives the empty object
DataOf(r) ==
    IF r.data.st = "absent"
    THEN [st |-> "dict", image_list |-> NoField, binary_data_base64 |-> NoField]
    ELSE r.data

\* a plausible slip: the last element of image_list instead of the first
SelectImage_lastElement(data) ==
    IF data.st = "null" THEN Raises(NotIterableMessage)
    ELSE IF data.image_list.st = "null" THEN Raises(NoLenMessage)
    ELSE IF data.image_list.st = "list" /\ Len(data.image_list.items) > 0
         THEN Returns(PyStr(data.image_list.items[Len(data.image_list.items)]), None)
    ELSE IF data.binary_data_base64.st = "null" THEN Raises(NoLenMessage)
    ELSE IF data.binary_data_base64.st = "list"
            /\ Len(data.binary_data_base64.items) > 0
         THEN Returns(PyStr(data.binary_data_base64.items[1]), None)
    ELSE Returns(None, PyStr(NoImageMessage))

\* a plausible slip: the fallback field looked at before the primary one
SelectImage_fallbackFirst(data) ==
    IF data.st = "null" THEN Raises(NotIterableMessage)
    ELSE IF data.binary_data_base64.st = "null" THEN Raises(NoLenMessage)
    ELSE IF data.binary_data_base64.st = "list"
            /\ Len(data.binary_data_base64.items) > 0
         THEN Returns(PyStr(data.binary_data_base64.items[1]), None)
    ELSE IF data.image_list.st = "null" THEN Raises(NoLenMessage)
    ELSE IF data.image_list.st = "list" /\ Len(data.image_list.items) > 0
         THEN Returns(PyStr(data.image_list.items[1]), None)
    ELSE Returns(None, PyStr(NoImageMessage))

\* a plausible slip: no error reported when neither field holds an image
SelectImage_noError(data) ==
    IF data.st = "null" THEN Raises(NotIterableMessage)
    ELSE IF data.image_list.st = "null" THEN Raises(NoLenMessage)
    ELSE IF data.image_list.st = "list" /\ Len(data.image_list.items) > 0
         THEN Returns(PyStr(data.image_list.items[1]), None)
    ELSE IF data.binary_data_base64.st = "null" THEN Raises(NoLenMessage)
    ELSE IF data.binary_data_base64.st = "list"
            /\ Len(data.binary_data_base64.items) > 0
         THEN Returns(PyStr(data.binary_data_base64.items[1]), None)
    ELSE Returns(None, None)

\* the image taken from the data object (lines 79-86)
SelectImage(data) ==
    IF data.st = "null" THEN Raises(NotIterableMessage)
    ELSE IF data.image_list.st = "null" THEN Raises(NoLenMessage)
    ELSE IF data.image_list.st = "list" /\ Len(data.image_list.items) > 0
         THEN Returns(PyStr(data.image_list.items[1]), None)
    ELSE IF data.binary_data_base64.st = "null" THEN Raises(NoLenMessage)
    ELSE IF data.binary_data_base64.st = "list"
            /\ Len(data.binary_data_base64.items) > 0
         THEN Returns(PyStr(data.binary_data_base64.items[1]), None)
    ELSE Returns(None, PyStr(NoImageMessage))

\* a plausible slip: the status code never looked at
InterpretResponse_noCodeCheck(r) == SelectImage(DataOf(r))

\* the body of the try block after cv_process has returned r (lines 73-86)
InterpretResponse(r) ==
    IF r.code # PyInt(SuccessCode)
    THEN Returns(None, PyStr(Concat(ApiErrorPrefix, Format(r.message))))
    ELSE SelectImage(DataOf(r))

\* the pair call_seedream_api returns when cv_process did o (lines 63-92):
\* an exception raised by cv_process or while reading the response is
\* caught and its text returned as the error
call_seedream_api(o) ==
    LET t == IF o.raised THEN Raises(o.msg) ELSE InterpretResponse(o)
    IN  IF t.raised THEN << None, PyStr(t.msg) >> ELSE << t.result, t.error >>

---------------------------------------------------------------------------
(* generate_image *)

NoExc == [type |-> "none", status_code |-> 0, detail |-> None, msg |-> Lit(<<>>)]

\* an exception other than HTTPException, with the text str(e) gives
PlainException(msg) ==
    [type |-> "Exception", status_code |-> 0, detail |-> None, msg |-> msg]

HTTPException(status_code, detail) ==
    [type |-> "HTTPException", status_code |-> status_code, detail |-> detail,
     msg |-> Lit(<<>>)]

\* str(e) (line 157).  For the HTTPException of line 149, which the except
\* clause of line 154 catches like any other exception, the framework's
\* __str__ gives "<status_code>: <detail>"; for any other exception it is
\* the exception's message
ExcStr(e) ==
    IF e.type = "HTTPException"
    THEN Concat(Lit(<<ToString(e.status_code), ": ">>), Format(e.detail))
    ELSE e.msg

\* an HTTP response: the status and the one key of its JSON body
Response(status, key, value) == [status |-> status, key |-> key, value |-> value]

\* a plausible slip: a failed vendor call is tried again
AfterCall_retry(err) == IF Truthy(err) THEN "call" ELSE "done"

\* where the handler goes once call_seedream_api has returned (lines 147-152):
\* to the raise of line 149, which the except clause of line 154 catches,
\* or to the return of line 152
AfterCall(err) == IF Truthy(err) THEN "except" ELSE "done"

Init ==
    /\ pc = "idle"
    /\ file = [content_type |-> "", contents |-> Lit(<<>>)]
    /\ mode = ""
    /\ image_base64 = Lit(<<>>)
    /\ cv_calls = <<>>
    /\ resp = NoOutcome
    /\ result_base64 = None
    /\ error_msg = None
    /\ exc = NoExc
    /\ responses = <<>>

\* a request arrives (lines 134-138)
Receive(ct, bytes, m) ==
    /\ pc = "idle"
    /\ pc' = "read"
    /\ file' = [content_type |-> ct, contents |-> bytes]
    /\ mode' = m
    /\ UNCHANGED <<image_base64, cv_calls, resp, result_base64, error_msg, exc,
                   responses>>

\* contents = await file.read(); image_base64 = b64encode(contents)
\* (lines 141-142)
ReadOk ==
    /\ pc = "read"
    /\ image_base64' = b64encode(file.contents)
    /\ pc' = "call"
    /\ UNCHANGED <<file, mode, cv_calls, resp, result_base64, error_msg, exc,
                   responses>>

\* file.read() raises (line 141): control passes to the except clause
ReadRaises(msg) ==
    /\ pc = "read"
    /\ exc' = PlainException(msg)
    /\ pc' = "except"
    /\ UNCHANGED <<file, mode, image_base64, cv_calls, resp, result_base64,
                   error_msg, responses>>

\* result_base64, error_msg = call_seedream_api(image_base64, mode)
\* (line 145): the body is built and handed to cv_process, which does o
CallVendor(o) ==
    /\ pc = "call"
    /\ cv_calls' = Append(cv_calls, BuildBody(image_base64, mode))
    /\ resp' = o
    /\ result_base64' = call_seedream_api(o)[1]
    /\ error_msg' = call_seedream_api(o)[2]
    /\ pc' = "check"
    /\ UNCHANGED <<file, mode, image_base64, exc, responses>>

\* if error_msg: raise HTTPException(500, error_msg), else return the
\* result (lines 147-152)
CheckError ==
    /\ pc = "check"
    /\ pc' = AfterCall(error_msg)
    /\ exc' = IF pc' = "except"
              THEN HTTPException(500, error_msg) ELSE exc
    /\ responses' = IF pc' = "done"
                    THEN Append(responses, Response(200, "result", result_base64))
                    ELSE responses
    /\ UNCHANGED <<file, mode, image_base64, cv_calls, resp, result_base64,
                   error_msg>>

\* except Exception as e: raise HTTPException(500, str(e)) (lines 154-157),
\* which the framework answers with the status and {"detail": ...}
OuterExcept ==
    /\ pc = "except"
    /\ responses' = Append(responses, Response(500, "detail", PyStr(ExcStr(exc))))
    /\ pc' = "done"
    /\ UNCHANGED <<file, mode, image_base64, cv_calls, resp, result_base64,
                   error_msg, exc>>

\* the response has been sent and the request is over: its locals are
\* dropped, and nothing of it is kept for the next request
Finish ==
    /\ pc = "done"
    /\ pc' = "idle"
    /\ file' = [content_type |-> "", contents |-> Lit(<<>>)]
    /\ mode' = ""
    /\ image_base64' = Lit(<<>>)
    /\ cv_calls' = <<>>
    /\ resp' = NoOutcome
    /\ result_base64' = None
    /\ error_msg' = None
    /\ exc' = NoExc
    /\ responses' = <<>>

Next ==
    \/ \E ct \in ContentTypes, bytes \in Uploads, m \in Modes : Receive(ct, bytes, m)
    \/ ReadOk
    \/ \E msg \in ExcMessages : ReadRaises(msg)
    \/ \E o \in Outcomes : CallVendor(o)
    \/ CheckError
    \/ OuterExcept
    \/ Finish

Spec == Init /\ [][Next]_vars

---------------------------------------------------------------------------
(* Vocabulary of the properties *)

\* what a client does with the result: base64.b64decode
B64Index(c) == CHOOSE i \in 0..63 : B64Char(i) = c

RECURSIVE DecodeSeq(_)
DecodeSeq(chars) ==
    IF Len(chars) < 4 THEN <<>>
    ELSE LET a == B64Index(chars[1])
             b == B64Index(chars[2])
             rest == DecodeSeq(SubSeq(chars, 5, Len(chars)))
         IN  IF chars[3] = "=" THEN << a * 4 + (b \div 16) >> \o rest
             ELSE LET c == B64Index(chars[3])
                  IN  IF chars[4] = "="
                      THEN << a * 4 + (b \div 16), (b % 16) * 16 + (c \div 4) >>
                               \o rest
                      ELSE << a * 4 + (b \div 16), (b % 16) * 16 + (c \div 4),
                              (c % 4) * 64 + B64Index(chars[4]) >> \o rest

b64decode(s) == Rep(DecodeSeq(s.unit), s.count, DecodeSeq(s.tail))

\* the content types the specification allows
AllowedTypes == { "image/jpeg", "image/png", "image/webp", "image/jpg" }

\* the upload passes the validation the specification describes
ValidUpload ==
    /\ file.content_type \in AllowedTypes
    /\ StrLen(file.contents) <= TenMiB

Done == pc = "done"

\* cv_process has been invoked for the request
Called == Len(cv_calls) > 0

\* cv_process returned a response (it did not raise)
Returned == Called /\ ~resp.raised

\* a key of the response's data object holds a non-empty list
Populated(f) == f.st = "list" /\ Len(f.items) > 0

\* a key of the response's data object is absent or an empty list
AbsentOrEmpty(f) == f.st = "absent" \/ (f.st = "list" /\ Len(f.items) = 0)

image_list == DataOf(resp).image_list

binary_data_base64 == DataOf(resp).binary_data_base64

\* the response's data is an object (or absent, which reads as {})
DataIsObject == resp.data.st # "null"

---------------------------------------------------------------------------
(* The claims *)

\* C1: a request whose declared content type is outside {jpeg, png, webp,
\* jpg} is answered with 400, and cv_process is never invoked for it.
C1_DisallowedTypeRejected ==
    (pc # "idle" /\ file.content_type \notin AllowedTypes)
        => /\ ~Called
           /\ Done => (Len(responses) = 1 /\ responses[1].status = 400)

\* C2: a request whose upload, once fully read, is longer than 10 MiB is
\* answered with 400, and cv_process is never invoked for it.
C2_OversizedUploadRejected ==
    (pc # "idle" /\ StrLen(file.contents) > TenMiB)
        => /\ ~Called
           /\ (Done /\ exc.type # "Exception")
                 => (Len(responses) = 1 /\ responses[1].status = 400)

C4_VendorErrorIs500 ==
    (Done /\ Returned /\ resp.code # PyInt(10000))
        => /\ Len(responses) = 1
           /\ responses[1].status = 500
           /\ responses[1].key = "detail"
           /\ responses[1].value.k = "str"
           /\ Contains(responses[1].value.s, Format(resp.message))

\* C4 happens: a failure code together with a populated image_list and a
\* message
C4_Witness ==
    /\ Done /\ Returned
    /\ resp.code = PyInt(50411)
    /\ resp.message = PyStr(Lit(<<"Access Denied">>))
    /\ DataIsObject /\ Populated(image_list)
    /\ responses[1].status = 500

\* C5: when cv_process returns code 10000 and neither image_list nor
\* binary_data_base64 is populated (each absent or empty), the answer is 500
\* with the "no image data" message, never 200.
C5_NoImageIs500 ==
    (Done /\ Returned /\ resp.code = PyInt(10000) /\ DataIsObject
          /\ AbsentOrEmpty(image_list) /\ AbsentOrEmpty(binary_data_base64))
        => /\ Len(responses) = 1
           /\ responses[1].status = 500
           /\ responses[1].key = "detail"
           /\ responses[1].value.k = "str"
           /\ Contains(responses[1].value.s, NoImageMessage)

\* C5 happens: code 10000 with an empty image_list and no binary_data_base64
C5_Witness ==
    /\ Done /\ Returned /\ resp.code = PyInt(10000)
    /\ resp.data.st = "dict"
    /\ image_list.st = "list" /\ Len(image_list.items) = 0
    /\ binary_data_base64.st = "absent"
    /\ responses[1].status = 500

\* C6: a request ends in exactly one outcome, one 200 with a result or one
\* HTTP error, never both and never neither, and cv_process is invoked at
\* most once on the way.
C6_OneOutcomeOneCall ==
    /\ Len(cv_calls) <= 1
    /\ ~Done => responses = <<>>
    /\ Done => /\ Len(responses) = 1
               /\ \/ responses[1].status = 200 /\ responses[1].key = "result"
                  \/ responses[1].status >= 400 /\ responses[1].key = "detail"

\* C6 happens: a request whose vendor call failed has ended, after one call
C6_Witness ==
    /\ Done /\ Len(cv_calls) = 1 /\ Truthy(error_msg)
    /\ responses[1].status = 500

\* C7: an exception raised while the request is handled, the vendor call
\* raising included, is answered with 500 whose detail is the exception's
\* message verbatim, whatever the message, the empty one included.
C7_ExceptionMessageVerbatim ==
    Done =>
        /\ exc.type = "Exception"
              => responses = << Response(500, "detail", PyStr(exc.msg)) >>
        /\ (Called /\ resp.raised)
              => responses = << Response(500, "detail", PyStr(resp.msg)) >>

\* C8: on code 10000 the first element of a populated image_list is
\* returned, also when binary_data_base64 is populated; the first element
\* of binary_data_base64 is returned when image_list is absent or empty and
\* binary_data_base64 is populated, and only then.
C8_FirstNonEmptyWins ==
    (Returned /\ resp.code = PyInt(10000) /\ DataIsObject)
        => /\ Populated(image_list)
                => /\ result_base64 = PyStr(image_list.items[1])
                   /\ error_msg = None
                   /\ Done => responses =
                        << Response(200, "result", PyStr(image_list.items[1])) >>
           /\ (AbsentOrEmpty(image_list) /\ Populated(binary_data_base64))
                => /\ result_base64 = PyStr(binary_data_base64.items[1])
                   /\ error_msg = None
                   /\ Done => responses =
                        << Response(200, "result",
                                    PyStr(binary_data_base64.items[1])) >>
           /\ (AbsentOrEmpty(image_list) /\ ~Populated(binary_data_base64))
                => result_base64 = None

\* C8 happens: both fields populated, with different first elements
C8_Witness ==
    /\ Done /\ Returned /\ resp.code = PyInt(10000) /\ DataIsObject
    /\ Populated(image_list) /\ Populated(binary_data_base64)
    /\ image_list.items[1] # binary_data_base64.items[1]
    /\ responses[1].status = 200

\* C9: the body handed to cv_process is a preset keyed by mode alone: the
\* portrait prompt and strength for mode "portrait", the one alternative
\* prompt and strength for every other mode; always the same req_key,
\* image_num 1, seed -1, width 1024, height 1024 and a binary_data_base64
\* list of one element, the base64 encoding of the uploaded bytes.
C9_PayloadPreset ==
    \A i \in 1..Len(cv_calls) :
        LET body == cv_calls[i]
        IN  /\ body.req_key = "jimeng_t2i_v40"
            /\ body.image_num = 1
            /\ body.seed = -1
            /\ body.width = 1024
            /\ body.height = 1024
            /\ PortraitPrompt # OtherPrompt
            /\ mode = "portrait"
                  => body.prompt = PortraitPrompt /\ body.strength = "0.6"
            /\ mode # "portrait"
                  => body.prompt = OtherPrompt /\ body.strength = "0.45"
            /\ Len(body.binary_data_base64) = 1
            /\ b64decode(body.binary_data_base64[1]) = file.contents

\* C9 happens: a body was sent for a mode that is neither "portrait" nor
\* "meme", with an upload that is not empty
C9_Witness ==
    /\ Called /\ mode = "" /\ StrLen(file.contents) = 4
    /\ cv_calls[1].prompt = OtherPrompt

\* C10: a 200 is sent only when cv_process was invoked, returned without
\* raising, reported code 10000 and had a populated image_list or
\* binary_data_base64; the result of every 200 is a non-empty string, never
\* null.
C10_SuccessOnlyWithImage ==
    (Done /\ Len(responses) > 0 /\ responses[1].status = 200)
        => /\ Returned
           /\ resp.code = PyInt(10000)
           /\ DataIsObject
           /\ Populated(image_list) \/ Populated(binary_data_base64)
           /\ responses[1].value.k = "str"
           /\ StrLen(responses[1].value.s) > 0

====
